---------------------------- MODULE Spec2Model ----------------------------
(***************************************************************************)
(* ecjsonrpc (src/index.js): the red/black message transform, the message  *)
(* templates and their factories, the structural validators and the key    *)
(* generator.                                                              *)
(*                                                                         *)
(* JavaScript values are tagged records [t |-> tag, v |-> payload].  An    *)
(* object's payload is a function from property names to values, an        *)
(* array's payload a sequence of values.  A string of hex digits (msghex,  *)
(* sighex, spkhex, key strings) is a sequence of one-character strings, a  *)
(* Buffer a sequence of numbers 0..255.                                    *)
(*                                                                         *)
(* The libraries the code calls are modelled by what they do:              *)
(*   - node Buffer hex conversion, with its silent truncation;             *)
(*   - JSON.stringify / JSON.parse over a token text;                      *)
(*   - elliptic's secp256k1 by the curve y^2 = x^3 + 7 over a small prime  *)
(*     field (same equation, prime group order), with compressed and       *)
(*     uncompressed point encodings;                                       *)
(*   - ECIES encryption and ECDSA signing by their ideal functionality: a  *)
(*     record of which byte strings were produced for whom (oracle).       *)
(***************************************************************************)
EXTENDS Integers, Sequences, FiniteSets, TLC

\* ------------------------------------------------------------------------
\* JavaScript values
\* ------------------------------------------------------------------------

Undef == [t |-> "undefined", v |-> 0]
Null == [t |-> "null", v |-> 0]
Num(n) == [t |-> "number", v |-> n]
Str(s) == [t |-> "string", v |-> s]
Bool(b) == [t |-> "boolean", v |-> b]
\* a string whose characters the code reads (hex text): kept as a sequence of
\* one-character strings
HexStr(cs) == [t |-> "hexstring", v |-> cs]
Arr(s) == [t |-> "array", v |-> s]
Obj(f) == [t |-> "object", v |-> f]

\* obj.name: a missing property, or a property of a primitive, is undefined
GetProp(obj, name) ==
    IF obj.t = "object" /\ name \in DOMAIN obj.v THEN obj.v[name] ELSE Undef

\* obj.name = val on an object value
SetProp(obj, name, val) ==
    Obj([k \in DOMAIN obj.v \cup {name} |-> IF k = name THEN val ELSE obj.v[k]])

\* x != null: false exactly for null and undefined
NotNullish(x) == x.t \notin {"null", "undefined"}

\* x === "s"
StrictEqStr(x, s) == x.t = "string" /\ x.v = s

\* ------------------------------------------------------------------------
\* JSON text: a sequence of tokens
\* ------------------------------------------------------------------------

Punct(c) == [k |-> "punct", s |-> c, n |-> 0]
StrTok(s) == [k |-> "string", s |-> s, n |-> 0]
HexTok(cs) == [k |-> "hexstring", s |-> cs, n |-> 0]
NumTok(n) == [k |-> "number", s |-> "", n |-> n]
LitTok(s) == [k |-> "literal", s |-> s, n |-> 0]

\* the order in which JSON.stringify visits the properties of the objects
\* of this module (their insertion order in the source)
PropOrder ==
    << "jsonrpc", "method", "result", "answer", "error", "code", "message",
       "params", "id", "msghex", "sighex", "spkhex", "prv", "pub" >>

OwnProps(f) == SelectSeq(PropOrder, LAMBDA k : k \in DOMAIN f)

RECURSIVE Stringify(_)
RECURSIVE StringifyElems(_, _)
RECURSIVE StringifyProps(_, _, _)

\* JSON.stringify(v): the text, or <<>> where JSON.stringify returns
\* undefined (no JSON text is empty)
Stringify(v) ==
    CASE v.t = "undefined" -> << >>
      [] v.t = "null" -> << LitTok("null") >>
      [] v.t = "boolean" -> << LitTok(IF v.v THEN "true" ELSE "false") >>
      [] v.t = "number" -> << NumTok(v.v) >>
      [] v.t = "string" -> << StrTok(v.v) >>
      [] v.t = "hexstring" -> << HexTok(v.v) >>
      [] v.t = "array" ->
            << Punct("[") >> \o StringifyElems(v.v, 1) \o << Punct("]") >>
      [] v.t = "object" ->
            << Punct("{") >> \o StringifyProps(v.v, OwnProps(v.v), TRUE)
                \o << Punct("}") >>

\* array elements: undefined is written as null
StringifyElems(s, i) ==
    IF i > Len(s) THEN << >>
    ELSE (IF i > 1 THEN << Punct(",") >> ELSE << >>)
         \o (IF s[i].t = "undefined" THEN << LitTok("null") >>
             ELSE Stringify(s[i]))
         \o StringifyElems(s, i + 1)

\* object properties: a property whose value is undefined is left out
StringifyProps(f, keys, first) ==
    IF keys = << >> THEN << >>
    ELSE IF f[Head(keys)].t = "undefined"
         THEN StringifyProps(f, Tail(keys), first)
         ELSE (IF first THEN << >> ELSE << Punct(",") >>)
              \o << StrTok(Head(keys)), Punct(":") >>
              \o Stringify(f[Head(keys)])
              \o StringifyProps(f, Tail(keys), FALSE)

ParseFail == [ok |-> FALSE, val |-> Undef, next |-> 0]
ParseOk(v, n) == [ok |-> TRUE, val |-> v, next |-> n]
IsTok(toks, i, tok) == i <= Len(toks) /\ toks[i] = tok

RECURSIVE ParseValue(_, _)
RECURSIVE ParseElems(_, _, _)
RECURSIVE ParseMembers(_, _, _)

\* one JSON value starting at token i
ParseValue(toks, i) ==
    IF i > Len(toks) THEN ParseFail
    ELSE LET tk == toks[i] IN
      CASE tk.k = "number" -> ParseOk(Num(tk.n), i + 1)
        [] tk.k = "string" -> ParseOk(Str(tk.s), i + 1)
        [] tk.k = "hexstring" -> ParseOk(HexStr(tk.s), i + 1)
        [] tk.k = "literal" ->
              IF tk.s = "null" THEN ParseOk(Null, i + 1)
              ELSE IF tk.s = "true" THEN ParseOk(Bool(TRUE), i + 1)
              ELSE IF tk.s = "false" THEN ParseOk(Bool(FALSE), i + 1)
              ELSE ParseFail
        [] tk.k = "punct" ->
              IF tk.s = "[" THEN
                  IF IsTok(toks, i + 1, Punct("]"))
                  THEN ParseOk(Arr(<< >>), i + 2)
                  ELSE ParseElems(toks, i + 1, << >>)
              ELSE IF tk.s = "{" THEN
                  IF IsTok(toks, i + 1, Punct("}"))
                  THEN ParseOk(Obj(<< >>), i + 2)
                  ELSE ParseMembers(toks, i + 1, << >>)
              ELSE ParseFail

ParseElems(toks, i, acc) ==
    LET e == ParseValue(toks, i) IN
    IF ~e.ok THEN ParseFail
    ELSE IF IsTok(toks, e.next, Punct(","))
         THEN ParseElems(toks, e.next + 1, Append(acc, e.val))
    ELSE IF IsTok(toks, e.next, Punct("]"))
         THEN ParseOk(Arr(Append(acc, e.val)), e.next + 1)
    ELSE ParseFail

\* a repeated name keeps its last value
ParseMembers(toks, i, acc) ==
    IF ~(i + 1 <= Len(toks) /\ toks[i].k = "string"
            /\ toks[i + 1] = Punct(":"))
    THEN ParseFail
    ELSE LET e == ParseValue(toks, i + 2)
             f == (toks[i].s :> e.val) @@ acc
         IN IF ~e.ok THEN ParseFail
            ELSE IF IsTok(toks, e.next, Punct(","))
                 THEN ParseMembers(toks, e.next + 1, f)
            ELSE IF IsTok(toks, e.next, Punct("}"))
                 THEN ParseOk(Obj(f), e.next + 1)
            ELSE ParseFail

\* JSON.parse(text): [ok, val]; not ok is a thrown SyntaxError
Parse(toks) ==
    LET r == ParseValue(toks, 1) IN
    IF r.ok /\ r.next = Len(toks) + 1 THEN [ok |-> TRUE, val |-> r.val]
    ELSE [ok |-> FALSE, val |-> Undef]

\* ------------------------------------------------------------------------
\* Buffers and hex text (node Buffer, 'hex' encoding)
\* ------------------------------------------------------------------------

HexLower ==
    << "0", "1", "2", "3", "4", "5", "6", "7", "8", "9",
       "a", "b", "c", "d", "e", "f" >>
HexUpper == << "A", "B", "C", "D", "E", "F" >>

\* the value of a hex digit of either case, -1 for any other character
HexDigitValue(c) ==
    IF \E i \in 1..16 : HexLower[i] = c
    THEN (CHOOSE i \in 1..16 : HexLower[i] = c) - 1
    ELSE IF \E i \in 1..6 : HexUpper[i] = c
    THEN (CHOOSE i \in 1..6 : HexUpper[i] = c) + 9
    ELSE -1

RECURSIVE BufferFromHex(_)
\* Buffer.from(str, 'hex'): two digits a byte, decoding stops silently at
\* the first pair that is not two hex digits; a trailing single character
\* is dropped.  It never throws for a string.
BufferFromHex(cs) ==
    IF Len(cs) < 2 THEN << >>
    ELSE LET hi == HexDigitValue(cs[1])
             lo == HexDigitValue(cs[2])
         IN IF hi < 0 \/ lo < 0 THEN << >>
            ELSE << 16 * hi + lo >> \o BufferFromHex(SubSeq(cs, 3, Len(cs)))

RECURSIVE BufferToHex(_)
\* buf.toString('hex'): two lower-case digits a byte
BufferToHex(bs) ==
    IF bs = << >> THEN << >>
    ELSE << HexLower[(bs[1] \div 16) + 1], HexLower[(bs[1] % 16) + 1] >>
         \o BufferToHex(Tail(bs))

\* crypto.createHash('sha256').update(msg).digest(): collision free, so the
\* digest stands for the bytes hashed and for nothing else
Sha256(bs) == [sha256 |-> bs]

\* ------------------------------------------------------------------------
\* The curve (elliptic's 'secp256k1', scaled down): y^2 = x^3 + 7 over the
\* field of FieldP elements; the group has the prime order GroupN, so every
\* private key 1..GroupN-1 has its own public point.  A coordinate is one
\* byte.
\* ------------------------------------------------------------------------

FieldP == 43
GroupN == 31
Infinity == [x |-> -1, y |-> -1]
BasePoint == [x |-> 2, y |-> 12]

ModInv(a) == CHOOSE b \in 1..(FieldP - 1) : (a * b) % FieldP = 1

OnCurve(P) ==
    /\ P.x \in 0..(FieldP - 1)
    /\ P.y \in 0..(FieldP - 1)
    /\ (P.y * P.y) % FieldP = (P.x * P.x * P.x + 7) % FieldP

PointAdd(P, Q) ==
    IF P = Infinity THEN Q
    ELSE IF Q = Infinity THEN P
    ELSE IF P.x = Q.x /\ (P.y + Q.y) % FieldP = 0 THEN Infinity
    ELSE LET l == IF P = Q
                  THEN (3 * P.x * P.x * ModInv((2 * P.y) % FieldP)) % FieldP
                  ELSE ((Q.y - P.y) * ModInv((Q.x - P.x) % FieldP)) % FieldP
             x == (l * l - P.x - Q.x) % FieldP
         IN [x |-> x, y |-> (l * (P.x - x) - P.y) % FieldP]

RECURSIVE ScalarMul(_)
\* ec.g.mul(k)
ScalarMul(k) == IF k = 0 THEN Infinity ELSE PointAdd(ScalarMul(k - 1), BasePoint)

\* point.encode(enc, compact): the compact form is the parity byte and x,
\* the other form is 04, x and y
EncodePoint(P, compact) ==
    IF compact THEN << 2 + (P.y % 2), P.x >> ELSE << 4, P.x, P.y >>

\* curve.decodePoint(bytes): [ok, point]; not ok is a thrown Error
DecodePoint(bs) ==
    IF Len(bs) = 3 /\ bs[1] = 4
    THEN [ok |-> TRUE, point |-> [x |-> bs[2], y |-> bs[3]]]
    ELSE IF Len(bs) = 2 /\ bs[1] \in {2, 3}
    THEN LET ys == {y \in 0..(FieldP - 1) :
                       OnCurve([x |-> bs[2], y |-> y]) /\ y % 2 = bs[1] - 2}
         IN IF ys = {} THEN [ok |-> FALSE, point |-> Infinity]
            ELSE [ok |-> TRUE,
                  point |-> [x |-> bs[2], y |-> CHOOSE y \in ys : TRUE]]
    ELSE [ok |-> FALSE, point |-> Infinity]

RECURSIVE HexToNat(_)
\* new BN(str, 16) of a string of hex digits
HexToNat(cs) ==
    IF cs = << >> THEN 0
    ELSE 16 * HexToNat(SubSeq(cs, 1, Len(cs) - 1)) + HexDigitValue(cs[Len(cs)])

IsHexText(cs) == \A i \in 1..Len(cs) : HexDigitValue(cs[i]) >= 0

\* ec.keyFromPrivate(hex, 'hex'): the private scalar
KeyFromPrivate(cs) == HexToNat(cs)

\* privkey.getPublic(compact, 'hex')
GetPublicHex(priv, compact) ==
    BufferToHex(EncodePoint(ScalarMul(priv % GroupN), compact))

\* keyFromPublic that reads the uncompressed encoding only
KeyFromPublicUncompressedOnly(cs) ==
    IF IsHexText(cs) /\ Len(cs) = 6 /\ SubSeq(cs, 1, 2) = << "0", "4" >>
    THEN DecodePoint(BufferFromHex(cs))
    ELSE [ok |-> FALSE, point |-> Infinity]

\* ec.keyFromPublic(hex, 'hex'): [ok, point]
KeyFromPublic(cs) ==
    IF IsHexText(cs) /\ Len(cs) % 2 = 0 THEN DecodePoint(BufferFromHex(cs))
    ELSE [ok |-> FALSE, point |-> Infinity]

\* ------------------------------------------------------------------------
\* ECIES (eciesjs) and ECDSA (elliptic) by their ideal functionality.
\* oracle.encrypted holds, for every ciphertext made, whom it is for and
\* what it holds; oracle.signed holds, for every signature made, the signer
\* and the digest signed.  A byte string no encryption produced decrypts
\* under no key; a signature no signing produced verifies under no key.
\* ------------------------------------------------------------------------

NoOracle == [encrypted |-> {}, signed |-> {}]

\* PublicKey.fromHex(hex) of eciesjs: [ok, point]; the point must lie on
\* the curve
EciesPublicKey(cs) ==
    LET d == DecodePoint(BufferFromHex(cs)) IN
    IF d.ok /\ OnCurve(d.point) THEN d ELSE [ok |-> FALSE, point |-> Infinity]

\* PrivateKey.fromHex(hex) of eciesjs: [ok, priv]; one byte here, and a
\* valid scalar
EciesPrivateKey(cs) ==
    LET bs == BufferFromHex(cs) IN
    IF Len(bs) = 1 /\ bs[1] \in 1..(GroupN - 1)
    THEN [ok |-> TRUE, priv |-> bs[1]]
    ELSE [ok |-> FALSE, priv |-> 0]

\* ecies.encrypt(rxpubkeyhex, data) with the ciphertext bytes ct drawn by
\* its ephemeral key and nonce: the oracle afterwards
EciesEncrypt(orc, point, data, ct) ==
    [orc EXCEPT !.encrypted = @ \cup {[ct |-> ct, to |-> point, pt |-> data]}]

\* a decryption that does not depend on the private key
EciesDecryptAnyKey(orc, priv, msg) ==
    LET hits == {e \in orc.encrypted : e.ct = msg}
    IN IF hits = {} THEN [ok |-> FALSE, pt |-> << >>]
       ELSE [ok |-> TRUE, pt |-> (CHOOSE e \in hits : TRUE).pt]

\* ecies.decrypt(privkeyhex, msg): [ok, pt]; not ok is a thrown Error
EciesDecrypt(orc, priv, msg) ==
    LET hits == {e \in orc.encrypted : e.ct = msg /\ e.to = ScalarMul(priv)}
    IN IF hits = {} THEN [ok |-> FALSE, pt |-> << >>]
       ELSE [ok |-> TRUE, pt |-> (CHOOSE e \in hits : TRUE).pt]

\* the number a digest is truncated to (ec._truncateToN)
DigestNumber(h) ==
    LET bs == h.sha256 IN
    (IF Len(bs) >= 1 THEN bs[1] ELSE 0) + (IF Len(bs) >= 2 THEN bs[2] ELSE 0)

ModInvN(a) == CHOOSE b \in 1..(GroupN - 1) : (a * b) % GroupN = 1

\* privkey.sign(msghash): deterministic (RFC 6979 nonce); the pair (r, s)
SignatureValue(priv, h) ==
    LET z == DigestNumber(h)
        k == 1 + ((priv + z) % (GroupN - 1))
        r == ScalarMul(k).x % GroupN
    IN [r |-> r, s |-> (ModInvN(k) * (z + r * priv)) % GroupN]

\* signature.toDER(): 30 len 02 rlen r 02 slen s, r and s one byte each
ToDER(sig) == << 48, 6, 2, 1, sig.r, 2, 1, sig.s >>

RECURSIVE BytesToNat(_)
BytesToNat(bs) ==
    IF bs = << >> THEN 0
    ELSE 256 * BytesToNat(SubSeq(bs, 1, Len(bs) - 1)) + bs[Len(bs)]

At(bs, i) == IF i \in 1..Len(bs) THEN bs[i] ELSE -1

\* Signature._importDER(data): [ok, r, s]
ImportDER(bs) ==
    LET len == At(bs, 2)
        rlen == At(bs, 4)
        spos == 5 + rlen
        slen == At(bs, spos + 1)
        bad == [ok |-> FALSE, r |-> 0, s |-> 0]
    IN IF At(bs, 1) # 48 \/ len < 0 \/ len + 2 # Len(bs) THEN bad
       ELSE IF At(bs, 3) # 2 \/ rlen < 0 \/ 4 + rlen > Len(bs) THEN bad
       ELSE IF At(bs, spos) # 2 \/ slen < 0 \/ Len(bs) # slen + spos + 1
       THEN bad
       ELSE [ok |-> TRUE,
             r |-> BytesToNat(SubSeq(bs, 5, 4 + rlen)),
             s |-> BytesToNat(SubSeq(bs, spos + 2, Len(bs)))]

\* the oracle after priv signs digest h
EcSign(orc, priv, h) ==
    [orc EXCEPT !.signed =
        @ \cup {[by |-> ScalarMul(priv % GroupN), hash |-> h,
                 sig |-> SignatureValue(priv, h)]}]

\* pubkey.verify(msghash, sig) for a signature that parsed
EcVerify(orc, point, h, sig) ==
    \E f \in orc.signed : f.by = point /\ f.hash = h /\ f.sig = sig

\* ------------------------------------------------------------------------
\* The heap: objects and arrays live at addresses, and a property or an
\* element holds a primitive value or a reference.  Two references to one
\* address are the same object: a write through one shows through the other.
\* ------------------------------------------------------------------------

Ref(a) == [t |-> "ref", v |-> a]

RECURSIVE Deref(_, _)
\* the value a slot holds, references followed: what JSON.stringify walks
Deref(h, slot) ==
    IF slot.t # "ref" THEN slot
    ELSE LET c == h[slot.v] IN
         IF c.t = "object"
         THEN Obj([k \in DOMAIN c.v |-> Deref(h, c.v[k])])
         ELSE Arr([i \in 1..Len(c.v) |-> Deref(h, c.v[i])])

FreshAddr(h) ==
    CHOOSE a \in 1..(Cardinality(DOMAIN h) + 1) :
        a \notin DOMAIN h /\ \A b \in 1..(a - 1) : b \in DOMAIN h

RECURSIVE Store(_, _)
RECURSIVE StoreElems(_, _, _, _)
RECURSIVE StoreProps(_, _, _, _)

\* a value built as new objects: [heap, slot]
Store(h, v) ==
    IF v.t = "array" THEN
        LET r == StoreElems(h, v.v, 1, << >>)
            a == FreshAddr(r.heap)
        IN [heap |-> (a :> Arr(r.cells)) @@ r.heap, slot |-> Ref(a)]
    ELSE IF v.t = "object" THEN
        LET r == StoreProps(h, v.v, OwnProps(v.v), << >>)
            a == FreshAddr(r.heap)
        IN [heap |-> (a :> Obj(r.cells)) @@ r.heap, slot |-> Ref(a)]
    ELSE [heap |-> h, slot |-> v]

StoreElems(h, s, i, acc) ==
    IF i > Len(s) THEN [heap |-> h, cells |-> acc]
    ELSE LET r == Store(h, s[i])
         IN StoreElems(r.heap, s, i + 1, Append(acc, r.slot))

StoreProps(h, f, keys, acc) ==
    IF keys = << >> THEN [heap |-> h, cells |-> acc]
    ELSE LET r == Store(h, f[Head(keys)])
         IN StoreProps(r.heap, f, Tail(keys), (Head(keys) :> r.slot) @@ acc)

\* h[a].name = slot
HeapSet(h, a, name, slot) == [h EXCEPT ![a] = SetProp(@, name, slot)]

RECURSIVE Reach(_, _)
\* the addresses reachable from a set of addresses
Reach(h, as) ==
    LET more == {c.v : c \in UNION {
                    IF h[a].t = "object"
                    THEN {h[a].v[k] : k \in DOMAIN h[a].v}
                    ELSE {h[a].v[i] : i \in 1..Len(h[a].v)} : a \in as}
                 \cap {Ref(b) : b \in DOMAIN h}}
    IN IF more \subseteq as THEN as ELSE Reach(h, as \cup more)

\* ------------------------------------------------------------------------
\* The exported templates
\* ------------------------------------------------------------------------

BLACKMSG == 1
REDHELLO == 3
REQUEST == 5
RESPONSE == 7
ERRORRESPONSE == 9
Templates == {BLACKMSG, REDHELLO, REQUEST, RESPONSE, ERRORRESPONSE}

\* the heap once the module is loaded
InitHeap ==
    (BLACKMSG :> Obj([msghex |-> HexStr(<< >>), sighex |-> HexStr(<< >>),
                      spkhex |-> HexStr(<< >>)]))
    @@ (2 :> Arr(<< >>))
    @@ (REDHELLO :> Obj([jsonrpc |-> Str("2.0"), method |-> Str("hello"),
                         params |-> Ref(2), id |-> Num(0)]))
    @@ (4 :> Arr(<< >>))
    @@ (REQUEST :> Obj([jsonrpc |-> Str("2.0"), method |-> Str(""),
                        params |-> Ref(4), id |-> Num(0)]))
    @@ (6 :> Obj(<< >>))
    @@ (RESPONSE :> Obj([jsonrpc |-> Str("2.0"), result |-> Ref(6),
                         id |-> Num(0)]))
    @@ (8 :> Obj([code |-> Num(0), message |-> Str("")]))
    @@ (ERRORRESPONSE :> Obj([jsonrpc |-> Str("2.0"), error |-> Ref(8),
                              id |-> Num(0)]))

\* Object.assign( {}, exports.X ): a new object whose properties are the
\* template's, nested objects shared with it
CloneShallow(h, a) ==
    LET n == FreshAddr(h) IN [heap |-> (n :> h[a]) @@ h, slot |-> Ref(n)]

\* JSON.parse( JSON.stringify(exports.X) ): [heap, slot] with the copy
CloneViaJSON(h, a) == Store(h, Parse(Stringify(Deref(h, Ref(a)))).val)

\* ------------------------------------------------------------------------
\* The operations of src/index.js
\* ------------------------------------------------------------------------

\* exports.makeRedHello: [heap, ret]
makeRedHello(h, sesspubkeyhex) ==
    LET result == CloneViaJSON(h, REDHELLO)
        params == Store(result.heap, Arr(<< sesspubkeyhex >>))
    IN [heap |-> HeapSet(params.heap, result.slot.v, "params", params.slot),
        ret |-> result.slot]

\* exports.makeErrorObj: [heap, ret]
makeErrorObj(h, errcode, errmessage, id) ==
    LET result == CloneViaJSON(h, ERRORRESPONSE)
        r == result.slot.v
        error == result.heap[r].v["error"].v
        h1 == HeapSet(result.heap, error, "code", errcode)
        h2 == HeapSet(h1, error, "message", errmessage)
    IN [heap |-> HeapSet(h2, r, "id", id), ret |-> result.slot]

\* what a call hands back: a returned value, or a thrown one
Returned(v, steps) ==
    [outcome |-> "returned", value |-> v, thrown |-> Undef, steps |-> steps]
Threw(x, steps) ==
    [outcome |-> "threw", value |-> Undef, thrown |-> x, steps |-> steps]
\* an Error object a library throws, named by where it comes from
ErrorFrom(where) == [t |-> "Error", v |-> where]

\* Buffer.from(x, 'hex') throws a TypeError unless x is a string
IsString(x) == x.t \in {"string", "hexstring"}

\* line 92: the digest blackToRed verifies the signature against
BlackMsgHash(msg) == Sha256(msg)

\* the check with its negation dropped: if (pubkey.verify(...)) throw
SenderVerifiedInverted(orc, pubkey, msghash, sig) ==
    ~EcVerify(orc, pubkey, msghash, sig)

\* the check with its result ignored
SenderVerifiedIgnored(orc, pubkey, msghash, sig) ==
    EcVerify(orc, pubkey, msghash, sig) \in BOOLEAN

\* lines 94-96: the sender check of blackToRed, for a signature that parsed
SenderVerified(orc, pubkey, msghash, sig) ==
    EcVerify(orc, pubkey, msghash, sig)

\* blackToRed with the decryption moved above the signature check
blackToRedDecryptFirst(orc, myprivkeyhex, blackobj) ==
    LET msghex == GetProp(blackobj, "msghex")
        sighex == GetProp(blackobj, "sighex")
        spkhex == GetProp(blackobj, "spkhex")
    IN
    IF ~IsString(msghex) \/ ~IsString(sighex)
    THEN Threw(ErrorFrom("Buffer.from"), << "Buffer.from" >>)
    ELSE
    LET msg == BufferFromHex(msghex.v)
        sig == BufferFromHex(sighex.v)
        msghash == Sha256(msg)
        priv == EciesPrivateKey(myprivkeyhex)
        red == EciesDecrypt(orc, priv.priv, msg)
        s1 == << "Buffer.from", "sha256", "decrypt" >>
        pubkey == IF IsString(spkhex) THEN KeyFromPublic(spkhex.v)
                  ELSE [ok |-> FALSE, point |-> Infinity]
        der == ImportDER(sig)
        s2 == Append(s1, "keyFromPublic")
        s3 == Append(s2, "verify")
        parsed == Parse(red.pt)
    IN
    IF ~priv.ok \/ ~red.ok THEN Threw(ErrorFrom("ecies.decrypt"), s1)
    ELSE IF ~pubkey.ok THEN Threw(ErrorFrom("keyFromPublic"), s2)
    ELSE IF ~der.ok THEN Threw(ErrorFrom("Signature without r or s"), s3)
    ELSE IF ~EcVerify(orc, pubkey.point, msghash, [r |-> der.r, s |-> der.s])
    THEN Threw(Str("Sender verification failure"), s3)
    ELSE IF ~parsed.ok THEN Threw(ErrorFrom("JSON.parse"), Append(s3, "JSON.parse"))
    ELSE Returned(parsed.val, Append(s3, "JSON.parse"))

\* exports.blackToRed, with steps the library calls it made, in order
blackToRed(orc, myprivkeyhex, blackobj) ==
    LET msghex == GetProp(blackobj, "msghex")
        sighex == GetProp(blackobj, "sighex")
        spkhex == GetProp(blackobj, "spkhex")
    IN
    IF ~IsString(msghex) \/ ~IsString(sighex)
    THEN Threw(ErrorFrom("Buffer.from"), << "Buffer.from" >>)
    ELSE
    LET msg == BufferFromHex(msghex.v)
        sig == BufferFromHex(sighex.v)
        msghash == BlackMsgHash(msg)
        s1 == << "Buffer.from", "sha256", "keyFromPublic" >>
        pubkey == IF IsString(spkhex) THEN KeyFromPublic(spkhex.v)
                  ELSE [ok |-> FALSE, point |-> Infinity]
        der == ImportDER(sig)
        s2 == Append(s1, "verify")
        priv == EciesPrivateKey(myprivkeyhex)
        red == EciesDecrypt(orc, priv.priv, msg)
        s3 == Append(s2, "decrypt")
        parsed == Parse(red.pt)
    IN
    IF ~pubkey.ok THEN Threw(ErrorFrom("keyFromPublic"), s1)
    ELSE IF ~der.ok THEN Threw(ErrorFrom("Signature without r or s"), s2)
    ELSE IF ~SenderVerified(orc, pubkey.point, msghash, [r |-> der.r, s |-> der.s])
    THEN Threw(Str("Sender verification failure"), s2)
    ELSE IF ~priv.ok \/ ~red.ok THEN Threw(ErrorFrom("ecies.decrypt"), s3)
    ELSE IF ~parsed.ok THEN Threw(ErrorFrom("JSON.parse"), Append(s3, "JSON.parse"))
    ELSE Returned(parsed.val, Append(s3, "JSON.parse"))

\* line 111: the digest redToBlack signs
RedMsgHash(msg, redstr) == Sha256(msg)

\* exports.redToBlack with the ciphertext bytes ct that ecies.encrypt draws:
\* [outcome, thrown, heap, ret, oracle]
redToBlack(h, orc, txprivkeyhex, rxpubkeyhex, redobj, ct) ==
    LET redstr == Stringify(redobj)
        rx == EciesPublicKey(rxpubkeyhex)
        msg == ct
        msghash == RedMsgHash(msg, redstr)
        privkey == KeyFromPrivate(txprivkeyhex)
        sig == ToDER(SignatureValue(privkey, msghash))
        txpubkeyhex == GetPublicHex(privkey, TRUE)
        result == CloneViaJSON(h, BLACKMSG)
        r == result.slot.v
        h1 == HeapSet(result.heap, r, "msghex", HexStr(BufferToHex(msg)))
        h2 == HeapSet(h1, r, "sighex", HexStr(BufferToHex(sig)))
        h3 == HeapSet(h2, r, "spkhex", HexStr(txpubkeyhex))
        failed(x) == [outcome |-> "threw", thrown |-> x, heap |-> h,
                      ret |-> Undef, oracle |-> orc]
    IN
    IF redstr = << >> THEN failed(ErrorFrom("Buffer.from"))
    ELSE IF ~rx.ok THEN failed(ErrorFrom("ecies.encrypt"))
    ELSE [outcome |-> "returned", thrown |-> Undef, heap |-> h3,
          ret |-> result.slot,
          oracle |-> EcSign(EciesEncrypt(orc, rx.point, redstr, msg),
                            privkey, msghash)]

\* isBlackMsg without the test of spkhex
isBlackMsgNoSender(obj) ==
    Bool(/\ NotNullish(obj)
         /\ NotNullish(GetProp(obj, "msghex"))
         /\ NotNullish(GetProp(obj, "sighex")))

\* exports.isBlackMsg
isBlackMsg(obj) ==
    Bool(/\ NotNullish(obj)
         /\ NotNullish(GetProp(obj, "msghex"))
         /\ NotNullish(GetProp(obj, "sighex"))
         /\ NotNullish(GetProp(obj, "spkhex")))

\* isJSONRPC comparing the version with == : the number 2 passes
isJSONRPCLoose(obj) ==
    Bool(/\ NotNullish(obj)
         /\ NotNullish(GetProp(obj, "jsonrpc"))
         /\ GetProp(obj, "jsonrpc") \in {Str("2.0"), Num(2)}
         /\ NotNullish(GetProp(obj, "id"))
         /\ \/ NotNullish(GetProp(obj, "method"))
            \/ NotNullish(GetProp(obj, "error"))
            \/ NotNullish(GetProp(obj, "result")))

\* exports.isJSONRPC
isJSONRPC(obj) ==
    Bool(/\ NotNullish(obj)
         /\ NotNullish(GetProp(obj, "jsonrpc"))
         /\ StrictEqStr(GetProp(obj, "jsonrpc"), "2.0")
         /\ NotNullish(GetProp(obj, "id"))
         /\ \/ NotNullish(GetProp(obj, "method"))
            \/ NotNullish(GetProp(obj, "error"))
            \/ NotNullish(GetProp(obj, "result")))

\* exports.makeKey with the byte crypto.randomBytes draws
makeKey(rnd) ==
    LET privkeyhex == BufferToHex(<< rnd >>)
        privkey == KeyFromPrivate(privkeyhex)
        pubkeyhex == BufferToHex(EncodePoint(ScalarMul(privkey % GroupN), FALSE))
    IN Obj([prv |-> HexStr(privkeyhex), pub |-> HexStr(pubkeyhex)])

\* ------------------------------------------------------------------------
\* Bounds and inputs
\* ------------------------------------------------------------------------

\* private keys 1..NKeys take part
NKeys == 3
\* returned objects a caller holds on to at once
MaxHeld == 1

PrivKeys == 1..NKeys
PrivHex(k) == BufferToHex(<< k >>)

\* ciphertexts ecies.encrypt may come up with
CipherTexts == { << 176, 91 >>, << 27, 203 >> }

RequestMsg ==
    Obj([jsonrpc |-> Str("2.0"), method |-> Str("doSomething"),
         params |-> Arr(<< Str("testing"), Num(123) >>), id |-> Num(5)])
ResponseMsg ==
    Obj([jsonrpc |-> Str("2.0"), result |-> Obj([answer |-> Num(42)]),
         id |-> Num(5)])
\* an object JSON cannot carry whole: an undefined property and element
LossyMsg ==
    Obj([jsonrpc |-> Str("2.0"), method |-> Str("notify"),
         params |-> Arr(<< Undef >>), id |-> Undef])
RedMessages == {RequestMsg, ResponseMsg, LossyMsg}

RECURSIVE IsJSONValue(_)
\* a value JSON.stringify writes down whole
IsJSONValue(v) ==
    CASE v.t = "undefined" -> FALSE
      [] v.t = "array" -> \A i \in 1..Len(v.v) : IsJSONValue(v.v[i])
      [] v.t = "object" -> \A k \in DOMAIN v.v : IsJSONValue(v.v[k])
      [] OTHER -> TRUE

\* characters a byte of msghex or sighex may be changed to: another digit,
\* a digit in upper case, a character that is no hex digit
AlterChars == {"0", "B", "z"}
HexFields == {"msghex", "sighex"}

\* non-empty text of hex digits, two a byte
ValidHex(cs) == cs # << >> /\ IsHexText(cs) /\ Len(cs) % 2 = 0

\* msghex or sighex is empty or not hex
Malformed(env) == \E f \in HexFields : ~ValidHex(GetProp(env, f).v)

\* the envelope's signature is one its spkhex made over its ciphertext
SignatureHolds(orc, env) ==
    LET pubkey == KeyFromPublic(GetProp(env, "spkhex").v)
        der == ImportDER(BufferFromHex(GetProp(env, "sighex").v))
    IN /\ pubkey.ok
       /\ der.ok
       /\ EcVerify(orc, pubkey.point,
                   Sha256(BufferFromHex(GetProp(env, "msghex").v)),
                   [r |-> der.r, s |-> der.s])

\* both envelopes hold the same ciphertext and signature bytes
SameBytes(e1, e2) ==
    \A f \in HexFields :
        BufferFromHex(GetProp(e1, f).v) = BufferFromHex(GetProp(e2, f).v)

\* ------------------------------------------------------------------------
\* State
\* ------------------------------------------------------------------------

VARIABLES
    heap,    \* the objects of the module and of its callers
    held,    \* addresses of returned objects a caller still holds
    oracle,  \* the ciphertexts and signatures of the exchange under way
    wire,    \* the envelope on its way, if any, with what was sent
    last     \* the last call and what it handed back

vars == << heap, held, oracle, wire, last >>

Init ==
    /\ heap = InitHeap
    /\ held = {}
    /\ oracle = NoOracle
    /\ wire = << >>
    /\ last = [op |-> "none"]

\* ------------------------------------------------------------------------
\* An exchange: a sender encodes, the envelope crosses the wire, where it
\* may be altered, and a receiver decodes it
\* ------------------------------------------------------------------------

\* the calls after which a party starts something new
Idle == {"none", "makeKey"}

\* a party makes a key pair
MakeKey ==
    /\ wire = << >>
    /\ last.op \in Idle
    /\ \E rnd \in PrivKeys :
          last' = [op |-> "makeKey", rnd |-> rnd, ret |-> makeKey(rnd)]
    /\ UNCHANGED << heap, held, oracle, wire >>

\* tx encodes red for rx, whose public key it holds in either encoding, and
\* sends the envelope; the returned object is serialized and let go
RedToBlack ==
    /\ wire = << >>
    /\ last.op \in Idle
    /\ \E tx \in PrivKeys, rx \in PrivKeys, compact \in BOOLEAN,
          red \in RedMessages, ct \in CipherTexts :
          \E r \in {redToBlack(heap, NoOracle, PrivHex(tx),
                               GetPublicHex(rx, compact), red, ct)} :
          \E env \in {Deref(r.heap, r.ret)} :
             /\ r.outcome = "returned"
             /\ oracle' = r.oracle
             /\ wire' = << [env |-> env, orig |-> env, from |-> tx,
                            to |-> rx, red |-> red, alt |-> "none"] >>
             /\ last' = [op |-> "redToBlack", from |-> tx, to |-> rx,
                         red |-> red, ret |-> env]
    /\ UNCHANGED << heap, held >>

Altered(field, cs, how) ==
    /\ wire' = << [wire[1] EXCEPT
                     !.env = SetProp(@, field, HexStr(cs)), !.alt = how] >>
    /\ UNCHANGED << heap, held, oracle, last >>

\* one character of msghex or sighex is changed on the wire
Tamper ==
    /\ wire # << >>
    /\ wire[1].alt = "none"
    /\ \E f \in HexFields :
          LET cs == GetProp(wire[1].env, f).v IN
          \E i \in 1..Len(cs) : \E c \in AlterChars \ {cs[i]} :
              Altered(f, [cs EXCEPT ![i] = c], "tamper")

\* characters that are no hex digits are added to msghex or sighex
AppendJunk ==
    /\ wire # << >>
    /\ wire[1].alt = "none"
    /\ \E f \in HexFields :
          Altered(f, GetProp(wire[1].env, f).v \o << "z", "z" >>, "junk")

\* msghex or sighex is emptied
Blank ==
    /\ wire # << >>
    /\ wire[1].alt = "none"
    /\ \E f \in HexFields : Altered(f, << >>, "blank")

\* another key holder signs the ciphertext anew, as lines 111-115 do, and
\* puts its own public key in spkhex
Resign ==
    /\ wire # << >>
    /\ wire[1].alt = "none"
    /\ \E e \in PrivKeys \ {wire[1].from} :
          LET env == wire[1].env
              msghash == Sha256(BufferFromHex(GetProp(env, "msghex").v))
              sig == ToDER(SignatureValue(e, msghash))
          IN /\ oracle' = EcSign(oracle, e, msghash)
             /\ wire' = << [wire[1] EXCEPT
                    !.env = SetProp(SetProp(@, "sighex",
                                            HexStr(BufferToHex(sig))),
                                    "spkhex", HexStr(GetPublicHex(e, TRUE))),
                    !.alt = "resign"] >>
    /\ UNCHANGED << heap, held, last >>

\* the holder of key k decodes the envelope that arrives
Deliver ==
    /\ wire # << >>
    /\ \E k \in PrivKeys :
          LET sent == wire[1]
              res == blackToRed(oracle, PrivHex(k), sent.env)
          IN last' = [op |-> "blackToRed", key |-> k, black |-> sent.env,
                      orig |-> sent.orig, from |-> sent.from,
                      to |-> sent.to, red |-> sent.red, alt |-> sent.alt,
                      same |-> SameBytes(sent.env, sent.orig),
                      malformed |-> Malformed(sent.env),
                      sigok |-> SignatureHolds(oracle, sent.env),
                      res |-> res]
    /\ wire' = << >>
    /\ oracle' = NoOracle
    /\ UNCHANGED << heap, held >>

\* the receiver is done with what it got
Forget ==
    /\ last.op = "blackToRed"
    /\ last' = [op |-> "none"]
    /\ UNCHANGED << heap, held, oracle, wire >>

Next ==
    \/ MakeKey
    \/ RedToBlack
    \/ Tamper
    \/ AppendJunk
    \/ Blank
    \/ Resign
    \/ Deliver
    \/ Forget

Spec == Init /\ [][Next]_vars

\* ------------------------------------------------------------------------
\* Callers that keep and change what the factories return
\* ------------------------------------------------------------------------

\* what a caller writes into an object it holds
MutVal == Str("changed")

HelloArgs == {HexStr(GetPublicHex(1, FALSE)), Undef}
ErrorArgs == { << Num(404), Str("not found"), Num(7) >>,
               << Undef, Str("oops"), Null >> }

\* the heap without the objects nothing refers to any more
Collect(h, roots) ==
    LET live == Reach(h, Templates \cup roots)
    IN [a \in live |-> h[a]]

Keep(r, call) ==
    /\ heap' = Collect(r.heap, held \cup {r.ret.v})
    /\ held' = held \cup {r.ret.v}
    /\ last' = [call EXCEPT !.ret = r.ret.v]
    /\ UNCHANGED << wire >>

HelloCall ==
    /\ Cardinality(held) < MaxHeld
    /\ \E arg \in HelloArgs :
          \E r \in {makeRedHello(heap, arg)} :
             /\ Keep(r, [op |-> "makeRedHello", args |-> << arg >>, ret |-> 0,
                         mutated |-> last.mutated])
             /\ UNCHANGED oracle

ErrorCall ==
    /\ Cardinality(held) < MaxHeld
    /\ \E args \in ErrorArgs :
          \E r \in {makeErrorObj(heap, args[1], args[2], args[3])} :
             /\ Keep(r, [op |-> "makeErrorObj", args |-> args, ret |-> 0,
                         mutated |-> last.mutated])
             /\ UNCHANGED oracle

\* a caller encodes a request and keeps the envelope object
BlackCall ==
    /\ Cardinality(held) < MaxHeld
    /\ \E r \in {redToBlack(heap, NoOracle, PrivHex(2),
                            GetPublicHex(1, TRUE), RequestMsg,
                            << 176, 91 >>)} :
             /\ r.outcome = "returned"
             /\ Keep(r, [op |-> "redToBlack", args |-> << Num(2) >>,
                         ret |-> 0, mutated |-> last.mutated])
             /\ oracle' = r.oracle

\* a caller writes to an object it can reach from one it holds: a property
\* of an object, or an element of an array
Mutate ==
    /\ \E a \in Reach(heap, held) :
          /\ \/ /\ heap[a].t = "object"
                /\ \E name \in DOMAIN heap[a].v :
                      /\ heap[a].v[name] # MutVal
                      /\ heap' = Collect(HeapSet(heap, a, name, MutVal), held)
             \/ /\ heap[a].t = "array"
                /\ \E i \in 1..Len(heap[a].v) :
                      /\ heap[a].v[i] # MutVal
                      /\ heap' = Collect(
                            [heap EXCEPT ![a] =
                                Arr([heap[a].v EXCEPT ![i] = MutVal])], held)
          /\ last' = [op |-> "mutate", args |-> << >>, ret |-> 0,
                      mutated |-> TRUE]
    /\ UNCHANGED << held, oracle, wire >>

\* a caller lets go of an object it holds
Drop ==
    /\ \E a \in held :
          /\ held' = held \ {a}
          /\ heap' = Collect(heap, held \ {a})
    /\ last' = [op |-> "drop", args |-> << >>, ret |-> 0,
                mutated |-> last.mutated]
    /\ UNCHANGED << oracle, wire >>

TemplateInit ==
    /\ heap = InitHeap
    /\ held = {}
    /\ oracle = NoOracle
    /\ wire = << >>
    /\ last = [op |-> "none", args |-> << >>, ret |-> 0, mutated |-> FALSE]

TemplateNext ==
    \/ HelloCall
    \/ ErrorCall
    \/ BlackCall
    \/ Mutate
    \/ Drop

TemplateSpec == TemplateInit /\ [][TemplateNext]_vars
\* ------------------------------------------------------------------------
\* Callers of the validators
\* ------------------------------------------------------------------------

Missing == [t |-> "missing", v |-> 0]

\* the objects with, for every name, one of the choices or no such property
ObjectsOver(choices) ==
    { Obj([k \in {n \in DOMAIN c : c[n] # Missing} |-> c[k]]) :
        c \in [DOMAIN choices -> UNION {choices[n] : n \in DOMAIN choices}
                                    \cup {Missing}] }

HexChoices == {Missing, Undef, Null, HexStr(<< >>), HexStr(<< "a" >>)}

\* the envelopes redToBlack returns
BlackOutputs ==
    { Deref(r.heap, r.ret) :
        r \in { redToBlack(InitHeap, NoOracle, PrivHex(tx),
                           GetPublicHex(rx, TRUE), red, ct) :
                  tx \in PrivKeys, rx \in PrivKeys, red \in RedMessages,
                  ct \in CipherTexts } }

BlackInputs ==
    {Null, Undef, Num(5), Str("msghex")}
    \cup { o \in ObjectsOver([msghex |-> HexChoices, sighex |-> HexChoices,
                              spkhex |-> HexChoices]) :
             \A n \in DOMAIN o.v : o.v[n] \in HexChoices }
    \cup BlackOutputs

RpcChoices ==
    [jsonrpc |-> {Null, Str("2.0"), Str("1.0"), Num(2)},
     id |-> {Null, Num(0), Num(1)},
     method |-> {Null, Str("x")},
     error |-> {Obj([code |-> Num(0), message |-> Str("")])},
     result |-> {Obj(<< >>)}]

RpcInputs ==
    {Null, Undef, Num(5), Str("2.0")}
    \cup { o \in ObjectsOver(RpcChoices) :
             \A n \in DOMAIN o.v : o.v[n] \in RpcChoices[n] }

IsBlackMsgCall ==
    /\ \E obj \in BlackInputs :
          last' = [op |-> "isBlackMsg", arg |-> obj, ret |-> isBlackMsg(obj)]
    /\ UNCHANGED << heap, held, oracle, wire >>

IsJSONRPCCall ==
    /\ \E obj \in RpcInputs :
          last' = [op |-> "isJSONRPC", arg |-> obj, ret |-> isJSONRPC(obj)]
    /\ UNCHANGED << heap, held, oracle, wire >>

ValidatorNext ==
    \/ IsBlackMsgCall
    \/ IsJSONRPCCall

ValidatorSpec == Init /\ [][ValidatorNext]_vars

\* ------------------------------------------------------------------------
\* Properties
\* ------------------------------------------------------------------------

Range(q) == {q[i] : i \in 1..Len(q)}
Decoded == last.op = "blackToRed"
SenderFailure == Str("Sender verification failure")
\* what the signature check ends with when it does not pass: the thrown
\* string, or the verifier's own error for a signature it cannot read
VerificationFailures == {SenderFailure, ErrorFrom("Signature without r or s")}
DecryptionFailure == ErrorFrom("ecies.decrypt")
SameCiphertext ==
    BufferFromHex(GetProp(last.black, "msghex").v)
        = BufferFromHex(GetProp(last.orig, "msghex").v)

\* C1: an envelope that arrives as it was sent, decoded with the private
\* key of the one it was encoded for, gives back a value structurally equal
\* to the JSON-serializable message that was encoded, whoever sent it to
\* whomever and whichever encoding of the receiver's key the sender held.
RoundTrip ==
    (Decoded /\ last.alt = "none" /\ last.key = last.to
        /\ IsJSONValue(last.red))
    => (last.res.outcome = "returned" /\ last.res.value = last.red)

RoundTripWitness ==
    /\ Decoded
    /\ last.alt = "none"
    /\ last.key = last.to
    /\ last.from # last.to
    /\ last.red = ResponseMsg
    /\ last.res.outcome = "returned"
    /\ last.res.value = ResponseMsg

\* C2 as stated: after one byte of msghex or of sighex is changed, decoding
\* with the receiver's key fails, at the signature check or at decryption.
TamperAlwaysFails ==
    (Decoded /\ last.alt = "tamper" /\ last.key = last.to)
    => (/\ last.res.outcome = "threw"
        /\ last.res.thrown \in VerificationFailures \cup {DecryptionFailure})

\* C2 amended: after one byte of msghex or of sighex is changed so that the
\* bytes the text decodes to change, decoding with the receiver's key fails,
\* at the signature check or at decryption, and returns nothing.
TamperDetected ==
    (Decoded /\ last.alt = "tamper" /\ last.key = last.to /\ ~last.same)
    => (/\ last.res.outcome = "threw"
        /\ last.res.value = Undef
        /\ last.res.thrown \in VerificationFailures \cup {DecryptionFailure})

TamperDetectedWitness ==
    /\ Decoded
    /\ last.alt = "tamper"
    /\ last.key = last.to
    /\ ~last.same
    /\ ~SameCiphertext
    /\ last.res.thrown = SenderFailure

WrongKeyRejected ==
    (Decoded /\ last.alt = "none" /\ last.key # last.to)
    => (/\ last.sigok
        /\ last.res.outcome = "threw"
        /\ last.res.thrown = DecryptionFailure
        /\ last.res.thrown \notin VerificationFailures
        /\ "verify" \in Range(last.res.steps))

WrongKeyRejectedWitness ==
    /\ Decoded
    /\ last.alt = "none"
    /\ last.key # last.to
    /\ last.key = last.from
    /\ last.res.thrown = DecryptionFailure

\* C5 as stated: an envelope whose msghex or sighex is empty or is not hex
\* is refused before anything is hashed, verified or decrypted, and no
\* message is returned for it.
MalformedRejected ==
    (Decoded /\ last.malformed)
    => (/\ last.res.outcome = "threw"
        /\ Range(last.res.steps) \cap {"sha256", "verify", "decrypt"} = {})

IsJSONRPCExact ==
    last.op = "isJSONRPC" =>
        LET o == last.arg
            wanted == /\ o \notin {Null, Undef}
                      /\ GetProp(o, "jsonrpc") = Str("2.0")
                      /\ GetProp(o, "id") \notin {Null, Undef}
                      /\ \E n \in {"method", "error", "result"} :
                            GetProp(o, n) \notin {Null, Undef}
        IN last.ret = Bool(wanted)

\* refused only because jsonrpc is a number and not the string
IsJSONRPCExactWitness ==
    /\ last.op = "isJSONRPC"
    /\ GetProp(last.arg, "jsonrpc") = Num(2)
    /\ GetProp(last.arg, "id") = Num(0)
    /\ GetProp(last.arg, "method") = Str("x")
    /\ last.ret = Bool(FALSE)

\* C8: isBlackMsg returns true exactly when its argument is not null and
\* its msghex, sighex and spkhex are not null, whatever they hold; otherwise
\* it returns false; it returns true for every envelope redToBlack returns.
IsBlackMsgExact ==
    last.op = "isBlackMsg" =>
        LET o == last.arg
            wanted == /\ o \notin {Null, Undef}
                      /\ \A n \in {"msghex", "sighex", "spkhex"} :
                            GetProp(o, n) \notin {Null, Undef}
        IN /\ last.ret = Bool(wanted)
           /\ o \in BlackOutputs => last.ret = Bool(TRUE)

\* accepted though nothing in it is hex or a key
IsBlackMsgExactWitness ==
    /\ last.op = "isBlackMsg"
    /\ last.arg = Obj([msghex |-> HexStr(<< >>), sighex |-> HexStr(<< "a" >>),
                       spkhex |-> HexStr(<< >>)])
    /\ last.ret = Bool(TRUE)

\* C9 as stated: the public key makeKey returns is the compressed encoding
\* of the public point of the private key it returns, the text redToBlack
\* puts in spkhex for that private key.
KeyPairCompressed ==
    last.op = "makeKey" =>
        GetProp(last.ret, "pub")
            = HexStr(GetPublicHex(KeyFromPrivate(GetProp(last.ret, "prv").v),
                                  TRUE))

\* C10: blackToRed returns exactly when the signature verifies under the
\* envelope's own spkhex and the ciphertext decrypts under the key it is
\* called with; so an envelope whose signature and spkhex another key
\* holder replaced with its own is decoded by the receiver to the message
\* that was encoded.
ResignedAccepted ==
    Decoded =>
        /\ last.res.outcome = "returned"
              <=> (last.sigok /\ last.key = last.to /\ SameCiphertext)
        /\ (last.alt = "resign" /\ last.key = last.to
               /\ IsJSONValue(last.red))
           => (last.res.outcome = "returned" /\ last.res.value = last.red)

ResignedAcceptedWitness ==
    /\ Decoded
    /\ last.alt = "resign"
    /\ last.key = last.to
    /\ GetProp(last.black, "spkhex") # GetProp(last.orig, "spkhex")
    /\ GetProp(last.black, "sighex") # GetProp(last.orig, "sighex")
    /\ GetProp(last.black, "msghex") = GetProp(last.orig, "msghex")
    /\ last.red = RequestMsg
    /\ last.res.value = RequestMsg
=============================================================================
